---------------------------- MODULE Spec2Model ----------------------------
(***************************************************************************)
(* Client-side voice session orchestrator of the movie search voice        *)
(* chatbot (interface-handler-lambda/lib/javascript.js): the playback      *)
(* sequencer (websocketQueue / queueProcessor), the control channel        *)
(* (websocketApplication), the transcription channel (websocketTranscribe, *)
(* micStream) and the utterance assembler (handleEventStreamMessage).      *)
(*                                                                         *)
(* Every event handler of the script is one action.  A handler is written  *)
(* as an operator on a record S holding the script's module-level state,   *)
(* so that nested calls (queueProcessor from a listener, the send button   *)
(* click from handleEventStreamMessage) compose as they do in the source.  *)
(***************************************************************************)
EXTENDS Integers, Sequences, FiniteSets, TLC

\* ------------------------------------------------------------- bounds --
MaxAppSockets == 2    \* control-channel connect attempts per run
MaxTrSockets == 2     \* transcription connections (getUserMedia calls) per run
MaxSeqInputs == 4     \* inputs (messages, user events) per run of SpecSeq
MaxMicInputs == 4     \* inputs per run of SpecMic
MaxUttInputs == 5     \* inputs per run of SpecUtt
MaxCtlInputs == 3     \* inputs per run of SpecCtl
MaxInputs == 3        \* inputs per run of Spec, the whole system
MaxUiInputs == 3      \* inputs per run of SpecUi
MaxLiveInputs == 3    \* inbound actions per run of SpecLive
MaxChunkLength == 12  \* samples in a captured chunk of SpecAudio

\* ------------------------------------------------- strings as sequences --
\* The characters that matter to trim(), split(/\W+/) and
\* decodeURIComponent: a word character, a blank, a newline (the fragment
\* separator), a punctuation mark and the percent sign.
WordChars == {"a"}
SpaceChars == {" ", "\n"}

IsW(c) == c \in WordChars

RECURSIVE TrimStart(_)
TrimStart(s) ==
  IF s = <<>> THEN s
  ELSE IF Head(s) \in SpaceChars THEN TrimStart(Tail(s)) ELSE s

RECURSIVE TrimEnd(_)
TrimEnd(s) ==
  IF s = <<>> THEN s
  ELSE IF s[Len(s)] \in SpaceChars THEN TrimEnd(SubSeq(s, 1, Len(s) - 1))
       ELSE s

\* String.prototype.trim
Trim(s) == TrimEnd(TrimStart(s))

\* s.split(/\W+/).length : one more than the number of maximal runs of
\* non-word characters ("" splits into [""], "a." into ["a", ""]).
SplitLength(s) ==
  1 + Cardinality({i \in 1..Len(s) :
                     /\ ~IsW(s[i])
                     /\ (i = 1 \/ IsW(s[i - 1]))})

\* decodeURIComponent: over this alphabet a percent sign never starts a
\* well-formed escape of a UTF-8 sequence ("%aa" is a lone continuation
\* byte), so the call throws URIError exactly when the text holds one, and
\* returns the text unchanged otherwise.
DecodeOk(s) == \A i \in 1..Len(s) : s[i] # "%"


\* ------------------------------------------------------ program state --
VARIABLES
  websocketQueue,             \* playback queue: Seq of inbound action records
  websocketApplicationQueue,  \* outbound control queue
  isQueueProcessing, isSpeaking, isListening,
  audio,                      \* the audio element: [src, type, phase, bySeq]
  status,                     \* text of the status element
  messages,                   \* children of the messages element (node classes)
  websocketApplication,       \* 0 (undefined) or the index of the control socket
  appSock,                    \* control sockets ever created: Seq of states
  fetches,                    \* capability-URL fetches in flight
  websocketTranscribe,        \* 0 (undefined) or the index of the socket
  micStream,                  \* 0 (undefined) or the index of the mic stream
  trSock,                     \* transcription sockets ever created: states
  mic,                        \* mic streams ever created: [stopped, listeners]
  gum,                        \* getUserMedia promises in flight
  transcription, utterance,   \* the assembler's two buffers
  inputText,                  \* value of the text input
  errorShown,                 \* the error modal has been shown
  started,                    \* history: ids of the actions started, in order
  lastAction,                 \* history: the action started last, "" if none
  awaited,                    \* history: id of the audio action started whose
                              \* own 'ended' has not come yet, 0 if none
  nextId,                     \* history: id of the next action enqueued
  userStopped,                \* history: the user's last button was Stop
  finals,                     \* history: the finalized fragments received
                              \* since the last utterance was emitted, each
                              \* followed by the separator
  micSampleRate,              \* 0 (undefined) or the rate of the 'format' event
  dsp,                        \* the latest run of convertAudioToBinaryMessage
                              \* at the level of samples: its input, the
                              \* intermediate buffers and the message body
  nextOut,                    \* history: id of the next outbound action pushed
  sent,                       \* history: the outbound actions transmitted, in
                              \* order: [sock, id, action]
  fetchFailed,                \* history: a fetch of the capability URL failed
  flushed,                    \* history: the transcription sockets on which
                              \* websocketTranscribeDisconnect sent its frame
  inputs,                     \* number of inputs consumed so far
  fx                          \* what the latest handler run did

vars == << websocketQueue, websocketApplicationQueue, isQueueProcessing,
           isSpeaking, isListening, audio, status, messages,
           websocketApplication, appSock, fetches, websocketTranscribe,
           micStream, trSock, mic, gum, transcription, utterance, inputText,
           errorShown, started, lastAction, awaited, nextId, userStopped,
           finals,
           micSampleRate, dsp, nextOut, sent, fetchFailed, flushed, inputs,
           fx >>

\* The module-level state as one record, for the handlers to transform.
Cur ==
  [ websocketQueue |-> websocketQueue,
    websocketApplicationQueue |-> websocketApplicationQueue,
    isQueueProcessing |-> isQueueProcessing,
    isSpeaking |-> isSpeaking,
    isListening |-> isListening,
    audio |-> audio,
    status |-> status,
    messages |-> messages,
    websocketApplication |-> websocketApplication,
    appSock |-> appSock,
    fetches |-> fetches,
    websocketTranscribe |-> websocketTranscribe,
    micStream |-> micStream,
    trSock |-> trSock,
    mic |-> mic,
    gum |-> gum,
    transcription |-> transcription,
    utterance |-> utterance,
    inputText |-> inputText,
    errorShown |-> errorShown,
    started |-> started,
    lastAction |-> lastAction,
    awaited |-> awaited,
    nextId |-> nextId,
    userStopped |-> userStopped,
    finals |-> finals,
    micSampleRate |-> micSampleRate,
    dsp |-> dsp,
    nextOut |-> nextOut,
    sent |-> sent,
    fetchFailed |-> fetchFailed,
    flushed |-> flushed,
    inputs |-> inputs,
    fx |-> fx ]

Commit(S) ==
  /\ websocketQueue' = S.websocketQueue
  /\ websocketApplicationQueue' = S.websocketApplicationQueue
  /\ isQueueProcessing' = S.isQueueProcessing
  /\ isSpeaking' = S.isSpeaking
  /\ isListening' = S.isListening
  /\ audio' = S.audio
  /\ status' = S.status
  /\ messages' = S.messages
  /\ websocketApplication' = S.websocketApplication
  /\ appSock' = S.appSock
  /\ fetches' = S.fetches
  /\ websocketTranscribe' = S.websocketTranscribe
  /\ micStream' = S.micStream
  /\ trSock' = S.trSock
  /\ mic' = S.mic
  /\ gum' = S.gum
  /\ transcription' = S.transcription
  /\ utterance' = S.utterance
  /\ inputText' = S.inputText
  /\ errorShown' = S.errorShown
  /\ started' = S.started
  /\ lastAction' = S.lastAction
  /\ awaited' = S.awaited
  /\ nextId' = S.nextId
  /\ userStopped' = S.userStopped
  /\ finals' = S.finals
  /\ micSampleRate' = S.micSampleRate
  /\ dsp' = S.dsp
  /\ nextOut' = S.nextOut
  /\ sent' = S.sent
  /\ fetchFailed' = S.fetchFailed
  /\ flushed' = S.flushed
  /\ inputs' = S.inputs
  /\ fx' = S.fx

\* The record of one handler run: the event, the control messages handed to
\* websocketApplicationQueueProcessor and those transmitted, the send calls
\* made on the transcription socket, the connect attempts started, and
\* whether the handler was aborted by an exception; arg is <<x>> for a
\* handler run on the input x.
NoFx(ev) ==
  [ ev |-> ev, arg |-> <<>>, submitted |-> <<>>, appSent |-> <<>>,
    trSent |-> <<>>, connects |-> 0, threw |-> FALSE ]

\* Entry of a handler for event ev; an input event consumes one input.
Enter(ev) == [Cur EXCEPT !.fx = NoFx(ev)]
EnterInput(ev) == [Cur EXCEPT !.fx = NoFx(ev), !.inputs = @ + 1]
EnterWith(ev, x) ==
  [Cur EXCEPT !.fx = [NoFx(ev) EXCEPT !.arg = <<x>>], !.inputs = @ + 1]

\* ---------------------------------------------------- audio element --
MediaActions == {"PLAY_RESPONSE", "PLAY_FEEDBACK", "PLAY_RINGTONE"}

AudioType(action) ==
  CASE action = "PLAY_RESPONSE" -> "RESPONSE"
    [] action = "PLAY_FEEDBACK" -> "FEEDBACK"
    [] OTHER -> "RINGTONE"

updateStatus(S, text) == [S EXCEPT !.status = text]

\* audioPlay(url, type): the element loads the new source, which ends
\* whatever it was playing without an 'ended' event, and starts playing it.
\* src is the id of the action whose audio it is; bySeq tells a playback
\* the sequencer started from one started by a bare audioDiv.play().
audioPlay(S, id, type) ==
  [S EXCEPT !.audio = [src |-> id, type |-> type, phase |-> "starting",
                       bySeq |-> TRUE],
            !.awaited = id]

\* clearAudio(): the empty tone becomes the source (src 0) and the element
\* is paused; the type attribute is left as it was.
clearAudio(S) ==
  [S EXCEPT !.audio = [src |-> 0, type |-> @.type, phase |-> "paused",
                       bySeq |-> FALSE]]

\* audioDiv.play(), the unmute hack of the click handlers: nothing happens
\* while the element is playing or has no source; a paused or ended source
\* is played (again).
audioDivPlay(S) ==
  IF S.audio.phase \in {"paused", "ended"}
  THEN [S EXCEPT !.audio.phase = "starting", !.audio.bySeq = FALSE]
  ELSE S

\* ------------------------------------------------------- displayText --
\* A message node is [cls, parts]: its type class and the number of texts
\* or images it holds.
\* Mutant of displayText: a trailing wait placeholder is not removed.
displayTextKeepsWait(S, type) ==
  LET n == Len(S.messages)
  IN IF n > 0 /\ S.messages[n].cls = type
     THEN IF type \in {"utterance", "response", "feedback"}
          THEN [S EXCEPT !.messages[n].parts = @ + 1]
          ELSE S
     ELSE [S EXCEPT !.messages = Append(@, [cls |-> type, parts |-> 1])]

\* Mutant of displayText: every text gets a message node of its own.
displayTextNewNode(S, type) ==
  [S EXCEPT !.messages = Append(@, [cls |-> type, parts |-> 1])]

\* displayText(text, type, url) as queueProcessor and the send button
\* call it.
displayText(S, type) ==
  LET n == Len(S.messages)
      last == S.messages[n]
  IN IF n > 0 /\ last.cls = type
     THEN IF type \in {"utterance", "response", "feedback"}
          THEN [S EXCEPT !.messages[n].parts = @ + 1]
          ELSE S
     ELSE LET kept == IF n > 0 /\ last.cls = "wait"
                      THEN SubSeq(S.messages, 1, n - 1)
                      ELSE S.messages
          IN [S EXCEPT !.messages = Append(kept, [cls |-> type, parts |-> 1])]

\* ---------------------------------------------------- control channel --
Msg(action) == [action |-> action, utterance |-> <<>>]

IsOpen(S) ==
  /\ S.websocketApplication # 0
  /\ S.appSock[S.websocketApplication] = "open"

\* The queue item for the action data[i]: the action with the id it gets
\* as it is pushed.
Pushed(S, data) ==
  [i \in 1..Len(data) |->
     [id |-> S.nextOut + i - 1, action |-> data[i].action,
      utterance |-> data[i].utterance]]

\* The send() calls of one flush of the queue q on the module-level socket.
Transmit(S, q) ==
  [i \in 1..Len(q) |->
     [sock |-> S.websocketApplication, id |-> q[i].id,
      action |-> q[i].action]]

\* Mutant of websocketApplicationQueueProcessor: unshift(), the action is
\* put at the head of the queue.
websocketApplicationQueueProcessorUnshift(S, data) ==
  LET S1 == [S EXCEPT !.websocketApplicationQueue = Pushed(S, data) \o @,
                      !.nextOut = @ + Len(data),
                      !.fx.submitted = @ \o data]
      q == S1.websocketApplicationQueue
  IN IF Len(q) > 0 /\ IsOpen(S1)
     THEN [S1 EXCEPT
             !.websocketApplicationQueue = <<>>,
             !.sent = @ \o Transmit(S1, q),
             !.fx.appSent = @ \o [i \in 1..Len(q) |->
                                    [sock |-> S1.websocketApplication,
                                     msg |-> q[i]]]]
     ELSE S1

\* websocketApplicationQueueProcessor(data); data is <<>> for null.
websocketApplicationQueueProcessor(S, data) ==
  LET S1 == [S EXCEPT !.websocketApplicationQueue = @ \o Pushed(S, data),
                      !.nextOut = @ + Len(data),
                      !.fx.submitted = @ \o data]
      q == S1.websocketApplicationQueue
  IN IF Len(q) > 0 /\ IsOpen(S1)
     THEN [S1 EXCEPT
             !.websocketApplicationQueue = <<>>,
             !.sent = @ \o Transmit(S1, q),
             !.fx.appSent = @ \o [i \in 1..Len(q) |->
                                    [sock |-> S1.websocketApplication,
                                     msg |-> q[i]]]]
     ELSE S1

\* Mutant of websocketApplicationConnect: the queue is flushed and no
\* capability URL is fetched.
websocketApplicationConnectNoFetch(S) ==
  websocketApplicationQueueProcessor(S, <<>>)

\* websocketApplicationConnect(): flush, then start the fetch of the
\* capability URL; the socket is created when the fetch resolves.
websocketApplicationConnect(S) ==
  LET S1 == websocketApplicationQueueProcessor(S, <<>>)
  IN [S1 EXCEPT !.fetches = @ + 1, !.fx.connects = @ + 1]

\* WebSocket.close(): a connecting socket fails (error, then close), an open
\* one starts the closing handshake, a closing or closed one is left alone.
CloseCall(state) ==
  CASE state = "connecting" -> "failing"
    [] state = "open" -> "closing"
    [] OTHER -> state

\* Mutant of websocketApplicationDisconnect: the queue is left as it is.
websocketApplicationDisconnectKeepQueue(S) ==
  LET w == S.websocketApplication
  IN IF w = 0
     THEN [S EXCEPT !.fx.threw = TRUE]
     ELSE [S EXCEPT !.appSock[w] = CloseCall(@)]

\* websocketApplicationDisconnect(): the queue is emptied, then close() is
\* called on the handle, which throws TypeError while it is undefined.
websocketApplicationDisconnect(S) ==
  LET S1 == [S EXCEPT !.websocketApplicationQueue = <<>>]
      w == S.websocketApplication
  IN IF w = 0
     THEN [S1 EXCEPT !.fx.threw = TRUE]
     ELSE [S1 EXCEPT !.appSock[w] = CloseCall(@)]

\* startStreamAudio(): getUserMedia is asked for the microphone.
startStreamAudio(S) == [S EXCEPT !.gum = @ + 1]

\* ------------------------------------------------- playback sequencer --
\* queueProcessorCompletedAction() and queueProcessor(data) call each
\* other; data is <<>> for null, else one action [action, type], which
\* gets the next id as it is pushed.
RECURSIVE queueProcessor(_, _)

queueProcessorCompletedAction(S) ==
  queueProcessor([S EXCEPT !.isQueueProcessing = FALSE], <<>>)

\* Mutant of RunItem: an audio action does not wait for 'ended'.
RunItemNoWait(S, item) ==
  CASE item.action \in MediaActions ->
         queueProcessorCompletedAction(
           audioPlay(S, item.id, AudioType(item.action)))
    [] item.action = "DISPLAY_RESPONSE" ->
         queueProcessorCompletedAction(displayText(S, "response"))
    [] item.action = "DISPLAY_FEEDBACK" ->
         queueProcessorCompletedAction(displayText(S, "feedback"))
    [] item.action = "TRANSCRIBE_CONNECTION" ->
         queueProcessorCompletedAction(startStreamAudio(S))
    [] item.action \in {"WAIT", "ERROR"} ->
         queueProcessorCompletedAction(
           displayText(updateStatus(S, "Processing"), item.type))
    [] OTHER ->
         queueProcessorCompletedAction(S)

\* Mutant of RunItem: an audio action is put back at the end of the queue
\* as it is started.
RunItemRequeue(S, item) ==
  IF item.action \in MediaActions
  THEN audioPlay([S EXCEPT !.websocketQueue = Append(@, item)],
                 item.id, AudioType(item.action))
  ELSE RunItemNoWait(S, item)

\* Mutant of RunItem: a display action does not report its completion.
RunItemStalls(S, item) ==
  IF item.action \in {"DISPLAY_RESPONSE", "DISPLAY_FEEDBACK"}
  THEN displayText(S, IF item.action = "DISPLAY_RESPONSE"
                      THEN "response" ELSE "feedback")
  ELSE RunItemNoWait(S, item)

\* The branch of queueProcessor taken for the dequeued item.
RunItem(S, item) ==
  CASE item.action \in MediaActions ->
         audioPlay(S, item.id, AudioType(item.action))
    [] item.action = "DISPLAY_RESPONSE" ->
         queueProcessorCompletedAction(displayText(S, "response"))
    [] item.action = "DISPLAY_FEEDBACK" ->
         queueProcessorCompletedAction(displayText(S, "feedback"))
    [] item.action = "TRANSCRIBE_CONNECTION" ->
         queueProcessorCompletedAction(startStreamAudio(S))
    [] item.action = "WAIT" ->
         queueProcessorCompletedAction(
           displayText(updateStatus(S, "Processing"), item.type))
    [] item.action = "ERROR" ->
         queueProcessorCompletedAction(
           displayText(updateStatus(S, "Processing"), item.type))
    [] OTHER ->
         \* REASONING, FEEDBACK_END and every unrecognised action
         queueProcessorCompletedAction(S)

\* Mutant of queueProcessor: an action that arrives while another is in
\* flight is not pushed.
queueProcessorDropWhenBusy(S, data) ==
  LET pushed == IF S.isQueueProcessing THEN <<>>
                ELSE [i \in 1..Len(data) |->
                        [id |-> S.nextId, action |-> data[i].action,
                         type |-> data[i].type]]
      S1 == [S EXCEPT !.websocketQueue = @ \o pushed,
                      !.nextId = @ + Len(data)]
      S2 == IF Len(S1.websocketQueue) > 0 /\ ~S1.isQueueProcessing
            THEN LET item == Head(S1.websocketQueue)
                 IN RunItem([S1 EXCEPT !.isQueueProcessing = TRUE,
                                        !.websocketQueue = Tail(@),
                                        !.started = Append(@, item.id)],
                            item)
            ELSE S1
  IN IF Len(S2.websocketQueue) = 0 THEN updateStatus(S2, "Ready") ELSE S2

\* Mutant of queueProcessor: the status is left as the action set it.
queueProcessorNoReady(S, data) ==
  LET pushed == [i \in 1..Len(data) |->
                   [id |-> S.nextId, action |-> data[i].action,
                    type |-> data[i].type]]
      S1 == [S EXCEPT !.websocketQueue = @ \o pushed,
                      !.nextId = @ + Len(data)]
  IN IF Len(S1.websocketQueue) > 0 /\ ~S1.isQueueProcessing
     THEN LET item == Head(S1.websocketQueue)
          IN RunItem([S1 EXCEPT !.isQueueProcessing = TRUE,
                                 !.websocketQueue = Tail(@),
                                 !.started = Append(@, item.id),
                                 !.lastAction = item.action],
                     item)
     ELSE S1

\* Mutant of Shift: pop(), the newest item is taken.
ShiftLast(q) == [item |-> q[Len(q)], rest |-> SubSeq(q, 1, Len(q) - 1)]

\* websocketQueue.shift(): the item taken and the queue left.
Shift(q) == [item |-> Head(q), rest |-> Tail(q)]

queueProcessor(S, data) ==
  LET pushed == [i \in 1..Len(data) |->
                   [id |-> S.nextId, action |-> data[i].action,
                    type |-> data[i].type]]
      S1 == [S EXCEPT !.websocketQueue = @ \o pushed,
                      !.nextId = @ + Len(data)]
      S2 == IF Len(S1.websocketQueue) > 0 /\ ~S1.isQueueProcessing
            THEN LET sh == Shift(S1.websocketQueue)
                 IN RunItem([S1 EXCEPT !.isQueueProcessing = TRUE,
                                        !.websocketQueue = sh.rest,
                                        !.started = Append(@, sh.item.id),
                                        !.lastAction = sh.item.action],
                            sh.item)
            ELSE S1
  IN IF Len(S2.websocketQueue) = 0 THEN updateStatus(S2, "Ready") ELSE S2

\* ------------------------------------------------ utterance assembler --
\* sendUtterance(utterance): the assignment utterance = '' is to the
\* parameter, which shadows the module-level buffer; transcription = ''
\* is to the module-level one.
sendUtterance(S, text) ==
  LET message == [action |-> "sendUtterance", utterance |-> text]
      S1 == websocketApplicationQueueProcessor(
              updateStatus(S, "Processing"), <<message>>)
  IN [S1 EXCEPT !.transcription = <<>>]

\* The 'click' listener of the send button.
sendButtonClick(S) ==
  IF Len(S.inputText) > 0
  THEN LET S1 == audioDivPlay([S EXCEPT !.websocketQueue = <<>>,
                                       !.websocketApplicationQueue = <<>>])
           S2 == IF S1.websocketApplication = 0
                 THEN websocketApplicationConnect(S1)
                 ELSE S1
           S3 == sendUtterance([S2 EXCEPT !.isListening = FALSE],
                               S2.inputText)
           S4 == displayText(displayText(S3, "utterance"), "wait")
       IN [S4 EXCEPT !.inputText = <<>>]
  ELSE S

\* A transcript event: n results (0 or 1), and for a result its IsPartial
\* flag and the transcript text of its first alternative.
ZeroResults == [n |-> 0, partial |-> FALSE, text |-> <<>>]
Result(partial, text) == [n |-> 1, partial |-> partial, text |-> text]

\* Mutant of handleEventStreamMessage: a pending buffer of two tokens or
\* fewer is thrown away by the zero-result event.
handleEventStreamMessageDiscarding(S, ev) ==
  IF ev.n > 0
  THEN IF ~DecodeOk(ev.text)
       THEN [S EXCEPT !.fx.threw = TRUE]
       ELSE IF ~ev.partial
            THEN [S EXCEPT
                    !.utterance = @ \o S.transcription \o ev.text \o <<"\n">>,
                    !.transcription = <<>>]
            ELSE S
  ELSE IF ~S.isListening
       THEN IF SplitLength(Trim(S.utterance)) > 2
            THEN LET S1 == [S EXCEPT
                              !.inputText = @ \o <<" ">> \o S.utterance]
                     S2 == sendButtonClick(S1)
                 IN [S2 EXCEPT !.utterance = <<>>, !.transcription = <<>>]
            ELSE [S EXCEPT !.utterance = <<>>, !.transcription = <<>>]
       ELSE S

\* Mutant of handleEventStreamMessage: the zero-result event sends the
\* pending utterance whether or not the user is still listening.
handleEventStreamMessageEager(S, ev) ==
  IF ev.n > 0
  THEN handleEventStreamMessageDiscarding(S, ev)
  ELSE IF SplitLength(Trim(S.utterance)) > 2
       THEN LET S1 == [S EXCEPT !.inputText = @ \o <<" ">> \o S.utterance]
                S2 == sendButtonClick(S1)
            IN [S2 EXCEPT !.utterance = <<>>, !.transcription = <<>>]
       ELSE S

\* handleEventStreamMessage(messageJson).  allowAudioInputOnly is true, so
\* the captured utterance is sent by clicking the send button.
handleEventStreamMessage(S, ev) ==
  IF ev.n > 0
  THEN IF ~DecodeOk(ev.text)
       THEN [S EXCEPT !.fx.threw = TRUE]
       ELSE IF ~ev.partial
            THEN [S EXCEPT
                    !.utterance = @ \o S.transcription \o ev.text \o <<"\n">>,
                    !.transcription = <<>>]
            ELSE S
  ELSE IF ~S.isListening /\ SplitLength(Trim(S.utterance)) > 2
       THEN LET S1 == [S EXCEPT !.inputText = @ \o <<" ">> \o S.utterance]
                S2 == sendButtonClick(S1)
            IN [S2 EXCEPT !.utterance = <<>>, !.transcription = <<>>]
       ELSE S

\* ---------------------------------------------- transcription channel --
\* convertAudioToBinaryMessage / getAudioEventMessage: an AudioEvent
\* message around the encoded chunk.
Silence == "zeros16384"
convertAudioToBinaryMessage(chunk) ==
  [eventType |-> "AudioEvent", body |-> chunk]
EmptyFrame == [eventType |-> "AudioEvent", body |-> "empty"]

\* WebSocket.send() by ready state: transmitted on an open socket, an
\* InvalidStateError on a connecting one, silently dropped otherwise.
SendResult(state) ==
  CASE state = "open" -> "sent"
    [] state = "connecting" -> "threw"
    [] OTHER -> "dropped"

TrSend(S, frame) ==
  LET w == S.websocketTranscribe
      r == SendResult(S.trSock[w])
  IN [S EXCEPT !.fx.trSent = Append(@, [sock |-> w, frame |-> frame,
                                        result |-> r]),
               !.fx.threw = (r = "threw")]

\* Mutant of micData: the speaking flag is not consulted.
micDataWhileSpeaking(S, chunk) ==
  IF S.trSock[S.websocketTranscribe] = "open" /\ S.isListening
  THEN TrSend(updateStatus(S, "Listening"),
              convertAudioToBinaryMessage(chunk))
  ELSE TrSend(S, convertAudioToBinaryMessage(Silence))

\* The 'data' listener of the mic stream, for one captured chunk.  It reads
\* the module-level socket handle when the chunk arrives.
micData(S, chunk) ==
  IF /\ S.trSock[S.websocketTranscribe] = "open"
     /\ ~S.isSpeaking
     /\ S.isListening
  THEN TrSend(updateStatus(S, "Listening"),
              convertAudioToBinaryMessage(chunk))
  ELSE TrSend(S, convertAudioToBinaryMessage(Silence))

\* emit('data', chunk): the listeners run in turn; an exception thrown by
\* one ends the emit.
RECURSIVE EmitData(_, _, _)
EmitData(S, chunk, n) ==
  IF n = 0 \/ S.fx.threw THEN S
  ELSE EmitData(micData(S, chunk), chunk, n - 1)

\* micStream.stop(), on the module-level handle.
micStreamStop(S) == [S EXCEPT !.mic[S.micStream].stopped = TRUE]

\* websocketTranscribeConnect(userMediaStream): a new mic stream and a new
\* socket replace the module-level handles.
websocketTranscribeConnect(S) ==
  LET k == Len(S.trSock) + 1
  IN [S EXCEPT !.mic = Append(@, [stopped |-> FALSE, listeners |-> 0]),
               !.micStream = k,
               !.trSock = Append(@, "connecting"),
               !.websocketTranscribe = k]

\* Mutant of trOnOpen: the ringtone is played at once, past the queue.
trOnOpenPlaysNow(S) ==
  LET S1 == websocketApplicationQueueProcessor(S, <<>>)
      S2 == audioPlay([S1 EXCEPT !.nextId = @ + 1,
                                 !.started = Append(@, S1.nextId),
                                 !.isQueueProcessing = TRUE],
                      S1.nextId, "RINGTONE")
  IN [S2 EXCEPT !.mic[S2.micStream].listeners = @ + 1]

\* The socket's 'open' listener: the ringtone is queued and a 'data'
\* listener is added to the module-level mic stream.
trOnOpen(S) ==
  LET S1 == websocketApplicationQueueProcessor(S, <<>>)
      S2 == queueProcessor(S1, <<[action |-> "PLAY_RINGTONE", type |-> "-"]>>)
  IN [S2 EXCEPT !.mic[S2.micStream].listeners = @ + 1]

\* Close code of a connection that was not closed by a close frame.
AbnormalClosure == 1006

showErrorMessage(S) == [S EXCEPT !.errorShown = TRUE]

\* The socket's 'close' listener.
trOnClose(S, code) ==
  LET S1 == micStreamStop(S)
  IN IF code # 1000 THEN showErrorMessage(S1) ELSE S1

\* websocketTranscribeDisconnect(): reading readyState of the undefined
\* handle throws TypeError.
websocketTranscribeDisconnect(S) ==
  IF S.websocketTranscribe = 0
  THEN [S EXCEPT !.fx.threw = TRUE]
  ELSE IF S.trSock[S.websocketTranscribe] = "open"
       THEN [TrSend(micStreamStop(S), EmptyFrame) EXCEPT
               !.flushed = @ \cup {S.websocketTranscribe}]
       ELSE S

\* ----------------------------------------------------- audio front end --
\* A float sample is the fraction n/d, NaN is 0/0.  Captured samples are
\* multiples of a quarter; means of them and their products with the two
\* scale factors are computed exactly, as float arithmetic does for such
\* values up to the truncation that setInt16 applies.
F(n) == [n |-> n, d |-> 4]
NaN == [n |-> 0, d |-> 0]

\* A captured chunk is a byte buffer holding float samples; new
\* Uint8Array(bytes) is such a buffer filled with zeros.
Chunk(samples) == [byteLength |-> 4 * Len(samples), floats |-> samples]
Uint8Array(bytes) ==
  [byteLength |-> bytes, floats |-> [i \in 1..(bytes \div 4) |-> F(0)]]

\* mic.toRaw(chunk): the buffer seen as a Float32Array, four bytes a sample.
toRaw(chunk) == chunk.floats

transcribeSampleRate == 16000
DefaultInputSampleRate == 44100

\* Math.round(a / b) for a >= 0 and b > 0: halves are rounded up.
MathRound(a, b) == (2 * a + b) \div (2 * b)

\* The sum of the numerators of buffer[lo], ..., buffer[hi - 1], counted
\* from 0 as the source does.
RECURSIVE Accum(_, _, _)
Accum(buffer, lo, hi) ==
  IF lo >= hi THEN 0 ELSE buffer[lo + 1].n + Accum(buffer, lo + 1, hi)

\* Mutant of downsampleBuffer: the new length is rounded down.
downsampleBufferFloor(buffer, inputSampleRate, outputSampleRate) ==
  IF outputSampleRate = inputSampleRate THEN buffer
  ELSE LET newLength ==
             (Len(buffer) * outputSampleRate) \div inputSampleRate
           offset(j) == MathRound(j * inputSampleRate, outputSampleRate)
       IN [k \in 1..newLength |->
             LET lo == offset(k - 1)
                 hi == IF offset(k) < Len(buffer) THEN offset(k)
                       ELSE Len(buffer)
             IN IF hi > lo
                THEN [n |-> Accum(buffer, lo, hi), d |-> 4 * (hi - lo)]
                ELSE NaN]

\* downsampleBuffer(buffer, inputSampleRate, outputSampleRate).  Output
\* sample k - 1 is the mean of the input samples from
\* round((k - 1) * ratio) up to round(k * ratio) and the end of the input;
\* the mean of no sample is 0 / 0.
downsampleBuffer(buffer, inputSampleRate, outputSampleRate) ==
  IF outputSampleRate = inputSampleRate THEN buffer
  ELSE LET newLength ==
             MathRound(Len(buffer) * outputSampleRate, inputSampleRate)
           offset(j) == MathRound(j * inputSampleRate, outputSampleRate)
       IN [k \in 1..newLength |->
             LET lo == offset(k - 1)
                 hi == IF offset(k) < Len(buffer) THEN offset(k)
                       ELSE Len(buffer)
             IN IF hi > lo
                THEN [n |-> Accum(buffer, lo, hi), d |-> 4 * (hi - lo)]
                ELSE NaN]

\* DataView.setInt16(offset, x, true): x is truncated towards zero and
\* wrapped into 16 bits; NaN is stored as 0.
Truncate(n, d) == IF n < 0 THEN -((-n) \div d) ELSE n \div d
ToInt16(t) == ((t + 32768) % 65536) - 32768

\* Math.max(-1, Math.min(1, s)); NaN stays NaN.
Clamp(s) ==
  IF s.d = 0 THEN s
  ELSE IF s.n > s.d THEN [n |-> 1, d |-> 1]
       ELSE IF s.n < -s.d THEN [n |-> -1, d |-> 1]
            ELSE s

\* Mutant of pcmEncode: both signs are scaled by 0x8000.
pcmEncodeSymmetric(input) ==
  [byteLength |-> 2 * Len(input),
   int16 |-> [i \in 1..Len(input) |->
                LET c == Clamp(input[i])
                IN IF c.d = 0 THEN 0
                   ELSE ToInt16(Truncate(c.n * 32768, c.d))]]

\* pcmEncode(input): an ArrayBuffer of two bytes a sample, each sample
\* clamped and scaled by 0x8000 if negative and by 0x7fff otherwise.
pcmEncode(input) ==
  [byteLength |-> 2 * Len(input),
   int16 |-> [i \in 1..Len(input) |->
                LET c == Clamp(input[i])
                IN IF c.d = 0 THEN 0
                   ELSE IF c.n < 0
                        THEN ToInt16(Truncate(c.n * 32768, c.d))
                        ELSE ToInt16(Truncate(c.n * 32767, c.d))]]

\* getAudioEventMessage(buffer).
getAudioEventMessage(buffer) == [eventType |-> "AudioEvent", body |-> buffer]

\* The steps of convertAudioToBinaryMessage(audioChunk) on the samples,
\* with the input and the intermediate buffers kept; an undefined
\* micSampleRate takes the default of the parameter.
Convert(chunk, rate) ==
  LET raw == toRaw(chunk)
      in == IF rate = 0 THEN DefaultInputSampleRate ELSE rate
      downsampledBuffer == downsampleBuffer(raw, in, transcribeSampleRate)
      pcmEncodedBuffer == pcmEncode(downsampledBuffer)
  IN [chunk |-> chunk, inputSampleRate |-> in, raw |-> raw,
      downsampledBuffer |-> downsampledBuffer,
      message |-> getAudioEventMessage(pcmEncodedBuffer)]

NoDsp ==
  [chunk |-> Chunk(<<>>), inputSampleRate |-> 0, raw |-> <<>>,
   downsampledBuffer |-> <<>>,
   message |-> getAudioEventMessage([byteLength |-> 0, int16 |-> <<>>])]

\* ---------------------------------------------------------------- Init --
\* The state once the script has run: the status is Stopped and the page
\* load has called websocketApplicationConnect(), whose fetch is in flight.
Init ==
  /\ websocketQueue = <<>>
  /\ websocketApplicationQueue = <<>>
  /\ isQueueProcessing = FALSE
  /\ isSpeaking = FALSE
  /\ isListening = FALSE
  /\ audio = [src |-> -1, type |-> "-", phase |-> "none", bySeq |-> FALSE]
  /\ status = "Stopped"
  /\ messages = <<>>
  /\ websocketApplication = 0
  /\ appSock = <<>>
  /\ fetches = 1
  /\ websocketTranscribe = 0
  /\ micStream = 0
  /\ trSock = <<>>
  /\ mic = <<>>
  /\ gum = 0
  /\ transcription = <<>>
  /\ utterance = <<>>
  /\ inputText = <<>>
  /\ errorShown = FALSE
  /\ started = <<>>
  /\ lastAction = ""
  /\ awaited = 0
  /\ nextId = 1
  /\ userStopped = FALSE
  /\ finals = <<>>
  /\ micSampleRate = 0
  /\ dsp = NoDsp
  /\ nextOut = 1
  /\ sent = <<>>
  /\ fetchFailed = FALSE
  /\ flushed = {}
  /\ inputs = 0
  /\ fx = [NoFx("load") EXCEPT !.connects = 1]

\* Room for one more connect attempt / one more transcription connection.
CanConnect == Len(appSock) + fetches < MaxAppSockets
QueuedConnections ==
  Cardinality({i \in 1..Len(websocketQueue) :
                 websocketQueue[i].action = "TRANSCRIBE_CONNECTION"})
CanTranscribe == Len(trSock) + gum + QueuedConnections < MaxTrSockets

\* ------------------------------------------- control channel: actions --
\* The fetch of the capability URL resolves: a new socket replaces the
\* module-level handle; an earlier socket keeps its listeners.
FetchResolve ==
  /\ fetches > 0
  /\ Commit([Enter("fetchOk") EXCEPT
               !.fetches = @ - 1,
               !.appSock = Append(@, "connecting"),
               !.websocketApplication = Len(appSock) + 1])

\* Mutant of FetchReject: the catch handler connects again.
FetchRejectRetries ==
  /\ fetches > 0
  /\ Commit(websocketApplicationConnect(
              showErrorMessage([Enter("fetchFail") EXCEPT
                                  !.fetches = @ - 1, !.fetchFailed = TRUE])))

\* The fetch fails: the catch handler shows the error.
FetchReject ==
  /\ fetches > 0
  /\ Commit(showErrorMessage([Enter("fetchFail") EXCEPT
                                !.fetches = @ - 1, !.fetchFailed = TRUE]))

\* 'open' listener of control socket s.
AppOpen(s) ==
  /\ appSock[s] = "connecting"
  /\ Commit(websocketApplicationQueueProcessor(
              [Enter("appOpen") EXCEPT !.appSock[s] = "open"],
              <<Msg("startProcess")>>))

\* 'message' listener of control socket s, for the inbound action m.
AppMessage(s, m) ==
  /\ appSock[s] = "open"
  /\ m.action = "TRANSCRIBE_CONNECTION" => CanTranscribe
  /\ LET S == EnterWith("appMessage", m)
         S1 == IF m.action = "FEEDBACK_END"
               THEN websocketApplicationDisconnect(S)
               ELSE IF m.action = "PROVIDE_FEEDBACK"
                    THEN updateStatus(S, "Generating Feedback")
                    ELSE S
     IN Commit(queueProcessor(S1, <<m>>))

\* 'close' listener of control socket s, no error before it: the remote end
\* closes an open socket, or a close already under way completes.
AppClose(s) ==
  /\ appSock[s] \in {"open", "closing"}
  /\ Commit(websocketApplicationQueueProcessor(
              [Enter("appClose") EXCEPT !.appSock[s] = "closed"], <<>>))

\* Control socket s fails (a failed handshake, a network error, or close()
\* while connecting): the browser sets it closed and fires 'error' and then
\* 'close' in one task, so the two listeners run back to back.
AppError(s) ==
  /\ appSock[s] \in {"connecting", "open", "failing"}
  /\ CanConnect
  /\ Commit(websocketApplicationQueueProcessor(
              websocketApplicationConnect(
                [Enter("appError") EXCEPT !.appSock[s] = "closed"]),
              <<>>))

\* The keepalive timer fires.
Tick ==
  /\ websocketApplication = 0 => CanConnect
  /\ LET S == EnterInput("tick")
     IN Commit(IF S.websocketApplication = 0
               THEN websocketApplicationConnect(S)
               ELSE websocketApplicationQueueProcessor(S, <<Msg("ping")>>))

\* ------------------------------------------------------ audio: actions --
\* 'playing' listener of the audio element.
AudioPlaying ==
  /\ audio.phase = "starting"
  /\ LET S == [Enter("playing") EXCEPT !.audio.phase = "playing",
                                       !.isSpeaking = TRUE]
     IN Commit(CASE audio.type = "FEEDBACK" ->
                      updateStatus(S, "Generating Feedback")
                 [] audio.type = "RESPONSE" -> updateStatus(S, "Speaking")
                 [] OTHER -> S)

\* Mutant of AudioEnded: the listener does not report the completion.
AudioEndedNoDrain ==
  /\ audio.phase = "playing"
  /\ Commit([Enter("ended") EXCEPT !.audio.phase = "ended",
                                   !.isSpeaking = FALSE])

\* 'ended' listener of the audio element.
AudioEnded ==
  /\ audio.phase = "playing"
  /\ Commit(queueProcessorCompletedAction(
              [Enter("ended") EXCEPT
                 !.audio.phase = "ended",
                 !.isSpeaking = FALSE,
                 !.awaited = IF audio.bySeq THEN 0 ELSE @]))

\* ------------------------------------------- transcription: actions --
\* getUserMedia resolves and websocketTranscribeConnect runs.
GumResolve ==
  /\ gum > 0
  /\ Commit(websocketTranscribeConnect([Enter("gumOk") EXCEPT !.gum = @ - 1]))

\* getUserMedia is refused: the catch handler logs.
GumReject ==
  /\ gum > 0
  /\ Commit([Enter("gumFail") EXCEPT !.gum = @ - 1])

\* 'open' listener of transcription socket k.
TrOpen(k) ==
  /\ trSock[k] = "connecting"
  /\ Commit(trOnOpen([Enter("trOpen") EXCEPT !.trSock[k] = "open"]))

\* 'message' listener of transcription socket k, for an event message.
TrMessage(k, ev) ==
  /\ trSock[k] = "open"
  /\ (ev.n = 0 /\ websocketApplication = 0) => CanConnect
  /\ LET S == handleEventStreamMessage(EnterWith("trMessage", ev), ev)
         emitted == S.fx.submitted # <<>>
     IN Commit([S EXCEPT !.finals =
                  IF emitted THEN <<>>
                  ELSE IF ev.n > 0 /\ ~ev.partial
                       THEN @ \o ev.text \o <<"\n">>
                       ELSE @])

\* Transcription socket k fails: 'error' and then 'close', with the code
\* of an abnormal closure, are fired in one task.
TrError(k) ==
  /\ trSock[k] \in {"connecting", "open"}
  /\ Commit(trOnClose(
              showErrorMessage(
                [Enter("trError") EXCEPT !.trSock[k] = "closed"]),
              AbnormalClosure))

\* 'close' listener of transcription socket k, no error before it, with
\* the close code the remote end gave.
TrClose(k, code) ==
  /\ trSock[k] = "open"
  /\ Commit(trOnClose([Enter("trClose") EXCEPT !.trSock[k] = "closed",
                                              !.fx.arg = <<code>>], code))

\* Mic stream m captures a chunk and emits it to its 'data' listeners.
MicData(m, chunk) ==
  /\ ~mic[m].stopped
  /\ mic[m].listeners > 0
  /\ Commit(EmitData(EnterWith("micData", chunk), chunk, mic[m].listeners))

\* ----------------------------------------------- audio front end: actions --
\* 'format' listener of the mic stream.
MicFormat(rate) ==
  Commit([Enter("format") EXCEPT !.micSampleRate = rate])

\* convertAudioToBinaryMessage(rawAudioChunk), line 440 of the 'data'
\* listener.
ConvertChunk(chunk) ==
  Commit([Enter("convert") EXCEPT !.dsp = Convert(chunk, micSampleRate)])

\* Mutant of ConvertSilence: the zero buffer is framed as it is, without
\* the conversion.
ConvertSilenceUnconverted ==
  Commit([Enter("convertSilence") EXCEPT
            !.dsp = [Convert(Uint8Array(16384), micSampleRate) EXCEPT
                       !.message = getAudioEventMessage(
                                     [byteLength |-> 16384,
                                      int16 |-> [i \in 1..8192 |-> 0]])]])

\* convertAudioToBinaryMessage(empty), lines 450-451 of the 'data' listener.
ConvertSilence ==
  Commit([Enter("convertSilence") EXCEPT
            !.dsp = Convert(Uint8Array(16384), micSampleRate)])

\* --------------------------------------------------- user: actions --
\* 'click' listener of the start button.
StartClick ==
  /\ CanConnect
  /\ LET S == clearAudio(EnterInput("startClick"))
         S1 == audioDivPlay([S EXCEPT !.websocketQueue = <<>>,
                                      !.websocketApplicationQueue = <<>>])
         S2 == websocketApplicationConnect(S1)
     IN Commit(updateStatus([S2 EXCEPT !.inputText = <<>>,
                                       !.messages = <<>>,
                                       !.userStopped = FALSE], "Starting"))

\* 'click' listener of the stop button; an exception ends the handler.
StopClick ==
  LET S == websocketTranscribeDisconnect(
             [EnterInput("stopClick") EXCEPT !.userStopped = TRUE])
      S1 == websocketApplicationQueueProcessor(S, <<Msg("stopProcess")>>)
      S2 == websocketApplicationDisconnect(S1)
  IN Commit(IF S.fx.threw THEN S
            ELSE IF S2.fx.threw THEN S2
            ELSE updateStatus(S2, "Stopped"))

\* whileListeningStart(), from the speak button or the space bar.
\* Mutant of whileListeningStart: the two queues are left as they are.
whileListeningStartKeepsQueues ==
  LET S == audioDivPlay(clearAudio(EnterInput("listenStart")))
  IN Commit(updateStatus([S EXCEPT !.isSpeaking = FALSE,
                                   !.isListening = TRUE], "Listening"))

whileListeningStart ==
  LET S == clearAudio(EnterInput("listenStart"))
      S1 == audioDivPlay([S EXCEPT !.websocketQueue = <<>>,
                                   !.websocketApplicationQueue = <<>>])
  IN Commit(updateStatus([S1 EXCEPT !.isSpeaking = FALSE,
                                    !.isListening = TRUE], "Listening"))

\* whileListeningStop().
whileListeningStop ==
  Commit(updateStatus([EnterInput("listenStop") EXCEPT !.isListening = FALSE],
                      "Ready"))

\* The user types text and clicks the send button.
UserSend(text) ==
  /\ websocketApplication = 0 => CanConnect
  /\ Commit(sendButtonClick([EnterWith("sendClick", text) EXCEPT
                               !.inputText = text,
                               !.userStopped = FALSE]))

\* ------------------------------------------------------------- inputs --
In(action, type) == [action |-> action, type |-> type]

\* Inbound actions of the control channel.
Inbound ==
  { In("PLAY_RESPONSE", "-"), In("PLAY_FEEDBACK", "-"),
    In("DISPLAY_RESPONSE", "TEXT"), In("DISPLAY_RESPONSE", "IMAGE"),
    In("DISPLAY_FEEDBACK", "-"), In("REASONING", "-"),
    In("TRANSCRIBE_CONNECTION", "-"), In("FEEDBACK_END", "-"),
    In("WAIT", "wait"), In("ERROR", "error"), In("PROVIDE_FEEDBACK", "-") }

\* One of each class the sequencer tells apart: two kinds of audio, a
\* display action, the connection action and the end of the feedback.
SeqInbound ==
  { In("PLAY_RESPONSE", "-"), In("PLAY_FEEDBACK", "-"),
    In("DISPLAY_RESPONSE", "TEXT"), In("TRANSCRIBE_CONNECTION", "-"),
    In("FEEDBACK_END", "-") }

\* Transcript texts: one, two and three words, a word with a full stop,
\* and two words with a percent sign.
Fragments ==
  { <<"a">>, <<"a", " ", "a">>, <<"a", " ", "a", " ", "a">>,
    <<"a", ".">>, <<"a", " ", "a", "%">> }

TranscriptEvents ==
  {ZeroResults} \cup {Result(p, t) : p \in BOOLEAN, t \in Fragments}

Chunks == {"chunk1", "chunk2"}
Texts == {<<"a", " ", "a">>}
CloseCodes == {1000, 1011}

AppSocks == 1..Len(appSock)
TrSocks == 1..Len(trSock)

\* ------------------------------------------------------ specifications --
\* The whole system.
Next ==
  \/ FetchResolve
  \/ FetchReject
  \/ \E s \in AppSocks : AppOpen(s)
  \/ \E s \in AppSocks : AppClose(s)
  \/ \E s \in AppSocks : AppError(s)
  \/ AudioPlaying
  \/ AudioEnded
  \/ GumResolve
  \/ GumReject
  \/ \E k \in TrSocks : TrOpen(k)
  \/ \E k \in TrSocks : TrError(k)
  \/ \E k \in TrSocks, code \in CloseCodes : TrClose(k, code)
  \/ inputs < MaxInputs /\ \E s \in AppSocks, m \in Inbound : AppMessage(s, m)
  \/ inputs < MaxInputs /\ Tick
  \/ inputs < MaxInputs /\ \E k \in TrSocks, ev \in TranscriptEvents :
                              TrMessage(k, ev)
  \/ inputs < MaxInputs /\ \E m \in TrSocks, c \in Chunks : MicData(m, c)
  \/ inputs < MaxInputs /\ StartClick
  \/ inputs < MaxInputs /\ StopClick
  \/ inputs < MaxInputs /\ whileListeningStart
  \/ inputs < MaxInputs /\ whileListeningStop
  \/ inputs < MaxInputs /\ \E t \in Texts : UserSend(t)

Spec == Init /\ [][Next]_vars

\* The playback sequencer with everything that touches its queue, its flag
\* or the audio element.
NextSeq ==
  \/ FetchResolve
  \/ \E s \in AppSocks : AppOpen(s)
  \/ AudioPlaying
  \/ AudioEnded
  \/ GumResolve
  \/ \E k \in TrSocks : TrOpen(k)
  \/ inputs < MaxSeqInputs /\ \E s \in AppSocks, m \in SeqInbound :
                                 AppMessage(s, m)
  \/ inputs < MaxSeqInputs /\ StartClick
  \/ inputs < MaxSeqInputs /\ whileListeningStart
  \/ inputs < MaxSeqInputs /\ \E t \in Texts : UserSend(t)

SpecSeq == Init /\ [][NextSeq]_vars

\* The microphone path: the transcription sockets and mic streams, the
\* two flags the 'data' listener reads, and what sets them.
MicInbound == { In("TRANSCRIBE_CONNECTION", "-"), In("PLAY_RESPONSE", "-") }

NextMic ==
  \/ FetchResolve
  \/ \E s \in AppSocks : AppOpen(s)
  \/ AudioPlaying
  \/ AudioEnded
  \/ GumResolve
  \/ \E k \in TrSocks : TrOpen(k)
  \/ \E k \in TrSocks : TrError(k)
  \/ \E k \in TrSocks, code \in CloseCodes : TrClose(k, code)
  \/ inputs < MaxMicInputs /\ \E s \in AppSocks, m \in MicInbound :
                                 AppMessage(s, m)
  \/ inputs < MaxMicInputs /\ \E m \in TrSocks, c \in Chunks : MicData(m, c)
  \/ inputs < MaxMicInputs /\ StopClick
  \/ inputs < MaxMicInputs /\ whileListeningStart
  \/ inputs < MaxMicInputs /\ whileListeningStop

SpecMic == Init /\ [][NextMic]_vars

\* The utterance assembler: transcript events, the listening flag, and the
\* send button, which the assembler clicks.
UttInbound == { In("TRANSCRIBE_CONNECTION", "-") }

NextUtt ==
  \/ FetchResolve
  \/ \E s \in AppSocks : AppOpen(s)
  \/ AudioPlaying
  \/ AudioEnded
  \/ GumResolve
  \/ \E k \in TrSocks : TrOpen(k)
  \/ inputs < MaxUttInputs /\ \E s \in AppSocks, m \in UttInbound :
                                 AppMessage(s, m)
  \/ inputs < MaxUttInputs /\ \E k \in TrSocks, ev \in TranscriptEvents :
                                 TrMessage(k, ev)
  \/ inputs < MaxUttInputs /\ whileListeningStart
  \/ inputs < MaxUttInputs /\ whileListeningStop
  \/ inputs < MaxUttInputs /\ \E t \in Texts : UserSend(t)

SpecUtt == Init /\ [][NextUtt]_vars

\* The utterance assembler and the keepalive timer.
NextAsm ==
  \/ NextUtt
  \/ inputs < MaxUttInputs /\ Tick

SpecAsm == Init /\ [][NextAsm]_vars

\* The sequencer left to itself: inbound actions and the ringtone, no user
\* input that clears the queue.  The audio element, once told to play,
\* fires 'playing' and then 'ended'; every promise and every socket that
\* is pending settles.
NextLive ==
  \/ FetchResolve
  \/ \E s \in AppSocks : AppOpen(s)
  \/ AudioPlaying
  \/ AudioEnded
  \/ GumResolve
  \/ \E k \in TrSocks : TrOpen(k)
  \/ inputs < MaxLiveInputs /\ \E s \in AppSocks, m \in SeqInbound :
                                  AppMessage(s, m)

SpecLive ==
  /\ Init
  /\ [][NextLive]_vars
  /\ WF_vars(AudioPlaying)
  /\ WF_vars(AudioEnded)

\* The control channel: its sockets, the keepalive timer, and the buttons
\* and the inbound action that connect or disconnect it.
CtlInbound == { In("FEEDBACK_END", "-"), In("REASONING", "-") }

NextCtl ==
  \/ FetchResolve
  \/ FetchReject
  \/ \E s \in AppSocks : AppOpen(s)
  \/ \E s \in AppSocks : AppClose(s)
  \/ \E s \in AppSocks : AppError(s)
  \/ inputs < MaxCtlInputs /\ \E s \in AppSocks, m \in CtlInbound :
                                 AppMessage(s, m)
  \/ inputs < MaxCtlInputs /\ Tick
  \/ inputs < MaxCtlInputs /\ StartClick
  \/ inputs < MaxCtlInputs /\ StopClick
  \/ inputs < MaxCtlInputs /\ \E t \in Texts : UserSend(t)

SpecCtl == Init /\ [][NextCtl]_vars

\* The sequencer with every kind of inbound action, and the two buttons
\* that write to the conversation.
NextUi ==
  \/ FetchResolve
  \/ \E s \in AppSocks : AppOpen(s)
  \/ AudioPlaying
  \/ AudioEnded
  \/ GumResolve
  \/ \E k \in TrSocks : TrOpen(k)
  \/ inputs < MaxUiInputs /\ \E s \in AppSocks, m \in Inbound :
                                AppMessage(s, m)
  \/ inputs < MaxUiInputs /\ StartClick
  \/ inputs < MaxUiInputs /\ \E t \in Texts : UserSend(t)

SpecUi == Init /\ [][NextUi]_vars

\* The audio front end: the capture rate and the conversion of a chunk.
\* Capture rates below, at and above the rate of the transcription, and
\* chunks of 0 to MaxChunkLength samples between -1.5 and 1.5.
SampleRates == {8000, 16000, 32000, 44100, 48000}
Samples == {F(-6), F(-4), F(-1), F(0), F(2), F(4), F(6)}
Ramp(len) == [i \in 1..len |-> F(((i * 5) % 13) - 6)]
AudioChunks ==
  {Chunk(<<x>>) : x \in Samples}
    \cup {Chunk(<<x, y>>) : x, y \in {F(-6), F(-1), F(4)}}
    \cup {Chunk(Ramp(len)) : len \in 0..MaxChunkLength}

NextAudio ==
  \/ \E rate \in SampleRates : MicFormat(rate)
  \/ \E chunk \in AudioChunks : ConvertChunk(chunk)
  \/ ConvertSilence

SpecAudio == Init /\ [][NextAudio]_vars

\* ------------------------------------------------- playback sequencer --
StartedIds == {started[i] : i \in 1..Len(started)}
QueueIds == {websocketQueue[i].id : i \in 1..Len(websocketQueue)}
AudioBusy == audio.phase \in {"starting", "playing"}

\* C1: actions are started in the order in which they were enqueued.  Ids
\* are given in enqueue order, so: the ids started are increasing, the ids
\* waiting are increasing, and every id waiting is larger than every id
\* started.
C1_StartOrderIsEnqueueOrder ==
  /\ \A i, j \in 1..Len(started) : i < j => started[i] < started[j]
  /\ \A i, j \in 1..Len(websocketQueue) :
       i < j => websocketQueue[i].id < websocketQueue[j].id
  /\ \A i \in 1..Len(started), j \in 1..Len(websocketQueue) :
       started[i] < websocketQueue[j].id

\* Three actions were enqueued, two of them while the first was playing,
\* and the completion signal has started them in turn.
C1_Witness ==
  /\ fx.ev = "ended"
  /\ started = <<1, 2, 3>>

\* C2 as stated: once an audio action has been started, no other action is
\* started until that playback's own 'ended' signal has been received.
C2_NextStartsAfterOwnEnded ==
  [][started' # started =>
       \/ awaited = 0
       \/ fx'.ev = "ended" /\ audio.bySeq]_vars

\* C2 as amended: an action is started only while the processing flag is
\* false or by an 'ended' signal of the audio element (the playback's own,
\* or the empty tone's after Start or push-to-talk replaced the playback),
\* and while the flag is false the element plays no audio that the
\* sequencer started: the audio of two actions never overlaps.
C2_OneActionInFlight ==
  /\ [](~isQueueProcessing => ~(audio.bySeq /\ AudioBusy))
  /\ [][started' # started =>
          \/ ~isQueueProcessing
          \/ fx'.ev = "ended"]_vars

\* Push-to-talk replaced a playing response by the empty tone, an action
\* arrived meanwhile, and the empty tone's 'ended' has started it.
C2_Witness ==
  /\ fx.ev = "ended"
  /\ awaited # 0
  /\ Len(started) >= 2
  /\ started[Len(started)] > awaited

\* C3 as stated: no action that was enqueued is ever lost, whatever the
\* user does: each is waiting in the queue or has been started.
C3_NoActionLost == StartedIds \cup QueueIds = 1..(nextId - 1)

ClearEvents == {"startClick", "listenStart", "sendClick", "trMessage"}

\* C3 as amended: buffered actions are started at most once and in arrival
\* order, and an action leaves the queue only by being started or by a
\* Start, push-to-talk or Send event, which discards all that is buffered.
C3_BufferedUntilStartedOrCleared ==
  /\ [](/\ \A i, j \in 1..Len(started) : i < j => started[i] < started[j]
        /\ StartedIds \cap QueueIds = {})
  /\ [][fx'.ev \notin ClearEvents =>
          /\ QueueIds \subseteq QueueIds' \cup StartedIds'
          /\ 1..(nextId' - 1) \ 1..(nextId - 1) \subseteq
               QueueIds' \cup StartedIds']_vars

\* Two actions arrived while a response was playing, and its 'ended'
\* signal has started both, the second one an audio action.
C3_Witness ==
  /\ fx.ev = "ended"
  /\ Len(started) >= 3
  /\ audio.bySeq /\ audio.phase = "starting"
  /\ audio.src = started[Len(started)]

\* ------------------------------------------------------ microphone path --
TranscribeOpen ==
  /\ websocketTranscribe # 0
  /\ trSock[websocketTranscribe] = "open"

SilenceFrame == convertAudioToBinaryMessage(Silence)

\* C4: a chunk handled while speaking is true or listening is false is
\* answered with the silence frame only, never with a frame made of the
\* chunk's audio.
C4_SilenceUnlessListeningAndQuiet ==
  [][(fx'.ev = "micData" /\ (isSpeaking \/ ~isListening)) =>
       \A i \in 1..Len(fx'.trSent) :
         /\ fx'.trSent[i].frame = SilenceFrame
         /\ fx'.trSent[i].frame.body \notin Chunks]_vars

\* Push-to-talk is held while the audio element is playing: the chunk
\* captured then went out as one silence frame on the open socket.
C4_Witness ==
  /\ fx.ev = "micData"
  /\ isSpeaking /\ isListening
  /\ TranscribeOpen
  /\ Len(fx.trSent) = 1
  /\ fx.trSent[1].frame = SilenceFrame
  /\ fx.trSent[1].result = "sent"

\* C5 as stated: every captured chunk results in exactly one outbound
\* frame, and that frame carries the chunk's audio when the socket is open,
\* speaking is false and listening is true.
C5_OneFramePerChunk ==
  [][fx'.ev = "micData" =>
       /\ Len(fx'.trSent) = 1
       /\ fx'.trSent[1].result = "sent"
       /\ (TranscribeOpen /\ ~isSpeaking /\ isListening) =>
            fx'.trSent[1].frame = convertAudioToBinaryMessage(fx'.arg[1])]_vars

\* --------------------------------------------------- utterance assembler --
\* The step is the handling of a zero-result transcript event.
ZeroResultStep == fx'.ev = "trMessage" /\ fx'.arg[1].n = 0

\* C6 as stated: when the finalized fragments received since the last
\* utterance have three tokens or more, a zero-result event received while
\* not listening emits exactly one utterance, whose text is those
\* fragments, and leaves both buffers empty; with nothing received since,
\* a zero-result event emits nothing.
C6_EmitsTheFinalizedFragments ==
  [][/\ (ZeroResultStep /\ ~isListening /\ SplitLength(Trim(finals)) > 2) =>
          /\ Len(fx'.submitted) = 1
          /\ fx'.submitted[1].action = "sendUtterance"
          /\ Trim(fx'.submitted[1].utterance) = Trim(finals)
          /\ utterance' = <<>>
          /\ transcription' = <<>>
     /\ (ZeroResultStep /\ finals = <<>>) => fx'.submitted = <<>>]_vars

\* C7 as stated: a zero-result event received while not listening, with a
\* pending buffer of two tokens or fewer, emits nothing and leaves the
\* pending buffer empty.
C7_ShortUtteranceDiscarded ==
  [][(ZeroResultStep /\ ~isListening /\ SplitLength(Trim(utterance)) <= 2) =>
       /\ fx'.submitted = <<>>
       /\ utterance' = <<>>]_vars

\* C7 as amended: such an event emits nothing and leaves both buffers as
\* they are; the fragments stay pending, and every utterance emitted later
\* is the whole pending buffer, those fragments included.
C7_ShortUtteranceKept ==
  [][/\ (ZeroResultStep /\ ~isListening
           /\ SplitLength(Trim(utterance)) <= 2) =>
          /\ fx'.submitted = <<>>
          /\ utterance' = utterance
          /\ transcription' = transcription
     /\ (ZeroResultStep /\ fx'.submitted # <<>>) =>
          /\ Len(fx'.submitted) = 1
          /\ fx'.submitted[1].utterance = <<" ">> \o utterance]_vars

\* A one-word fragment stayed pending through a zero-result event, and a
\* later zero-result event has emitted it together with a two-word one.
C7_Witness ==
  /\ fx.ev = "trMessage" /\ fx.arg[1].n = 0
  /\ Len(fx.submitted) = 1
  /\ fx.submitted[1].utterance =
       <<" ", "a", "\n", "a", " ", "a", "\n">>
  /\ utterance = <<>>

\* ------------------------------------------------------- control channel --
\* The handle names a socket that is not closed.
ConnectionExists ==
  /\ websocketApplication # 0
  /\ appSock[websocketApplication] # "closed"

\* The connection was lost and nothing has been done about it: the socket
\* is closed, no connect attempt is under way, and the user has not
\* stopped the session.
ConnectionLost ==
  /\ websocketApplication # 0
  /\ appSock[websocketApplication] = "closed"
  /\ fetches = 0
  /\ ~userStopped

\* C8 as stated: after the control connection is lost, a reconnect attempt
\* is made on the error event and otherwise at the latest on the next
\* keepalive tick.
C8_ReconnectAfterLoss ==
  [][/\ fx'.ev = "appError" => fx'.connects > 0
     /\ (fx'.ev = "tick" /\ ConnectionLost) => fx'.connects > 0]_vars

\* No connection exists and none is being made.
NoConnection == ~ConnectionExists /\ fetches = 0

\* C9 as stated: a keepalive tick starts a connect attempt and queues no
\* ping when no control connection exists, and submits exactly one ping
\* and starts no connect attempt when one exists.
C9_TickConnectsOrPings ==
  [][fx'.ev = "tick" =>
       /\ ConnectionExists =>
            fx'.connects = 0 /\ fx'.submitted = <<Msg("ping")>>
       /\ NoConnection =>
            fx'.connects = 1 /\ fx'.submitted = <<>>]_vars

\* C10: an error event on a control socket starts one connect attempt, the
\* fetch of a capability URL; a close event without error starts none.
C10_ErrorReconnectsCloseDoesNot ==
  [][/\ fx'.ev = "appError" =>
          fx'.connects = 1 /\ fetches' = fetches + 1
     /\ fx'.ev = "appClose" =>
          /\ fx'.connects = 0
          /\ fetches' = fetches
          /\ Len(appSock') = Len(appSock)]_vars

\* The first socket has failed and the fetch for its replacement is in
\* flight.
C10_Witness ==
  /\ fx.ev = "appError"
  /\ fx.connects = 1
  /\ fetches = 1
  /\ appSock = <<"closed">>

\* ----------------------------------------------------- control channel --
SentIds == {sent[i].id : i \in 1..Len(sent)}
OutQueueIds ==
  {websocketApplicationQueue[i].id : i \in 1..Len(websocketApplicationQueue)}
NewSentIds == {sent'[i].id : i \in (Len(sent) + 1)..Len(sent')}
FreshOutIds == nextOut..(nextOut' - 1)

\* A step in which websocketApplicationDisconnect() has run: the inbound
\* FEEDBACK_END, or a Stop click that reached the call.
Disconnects ==
  \/ fx'.ev = "appMessage" /\ fx'.arg[1].action = "FEEDBACK_END"
  \/ fx'.ev = "stopClick" /\ ~fx'.threw

\* C11: disconnecting the control channel closes the socket and empties the
\* outbound queue, no action queued before the disconnect is transmitted
\* afterwards, and no outbound action is transmitted twice.  Every action
\* gets a fresh id as it is pushed: the ids transmitted are pairwise
\* different and none of them is still queued; an action is transmitted
\* only out of the queue and never enters the queue a second time; and a
\* disconnect leaves the queue empty and the socket closing or closed
\* without transmitting what was queued when it was called.
C11_DisconnectDropsQueue ==
  /\ [](/\ \A i, j \in 1..Len(sent) : i # j => sent[i].id # sent[j].id
        /\ SentIds \cap OutQueueIds = {}
        /\ \A i \in SentIds \cup OutQueueIds : i < nextOut)
  /\ [][/\ NewSentIds \subseteq OutQueueIds \cup FreshOutIds
        /\ OutQueueIds' \subseteq OutQueueIds \cup FreshOutIds
        /\ SubSeq(sent', 1, Len(sent)) = sent
        /\ Disconnects =>
             /\ websocketApplicationQueue' = <<>>
             /\ appSock'[websocketApplication'] \in
                  {"closing", "failing", "closed"}
             /\ NewSentIds \cap OutQueueIds = {}]_vars

\* FEEDBACK_END arrives while the module-level socket is still connecting
\* and an action waits in the queue: the action is dropped unsent.
C11_Witness ==
  /\ fx.ev = "appMessage"
  /\ fx.arg[1].action = "FEEDBACK_END"
  /\ nextOut > 1
  /\ sent = <<>>
  /\ websocketApplicationQueue = <<>>
  /\ appSock[websocketApplication] = "failing"

IdsOf(q) == [i \in 1..Len(q) |-> q[i].id]
FreshOut == [i \in 1..(nextOut' - nextOut) |-> nextOut + i - 1]
NewSent == SubSeq(sent', Len(sent) + 1, Len(sent'))
ControlOpen ==
  websocketApplication # 0 /\ appSock[websocketApplication] = "open"

\* In one step the queue, with the actions submitted in the step at its
\* tail, is either kept as it is or transmitted whole, in queue order, on
\* the module-level socket.
KeptOrFlushed ==
  LET q == IdsOf(websocketApplicationQueue) \o FreshOut
  IN \/ /\ IdsOf(websocketApplicationQueue') = q
        /\ sent' = sent
     \/ /\ websocketApplicationQueue' = <<>>
        /\ IdsOf(NewSent) = q
        /\ \A i \in 1..Len(NewSent) :
             NewSent[i].sock = websocketApplication'

\* C12 as stated: outbound actions submitted while the socket is not open
\* are retained in submission order and all transmitted, in that order,
\* once the connection opens, and the queue is empty whenever the socket is
\* open: in every step the queue is kept or flushed whole.
C12_QueuedUntilOpen ==
  /\ [](ControlOpen => websocketApplicationQueue = <<>>)
  /\ [][KeptOrFlushed]_vars

\* A step that empties the outbound queue without transmitting it: Start,
\* push-to-talk, and a Send click with a text to send (the user's or the
\* utterance assembler's).
OutClears ==
  \/ fx'.ev \in {"startClick", "listenStart"}
  \/ fx'.ev \in {"sendClick", "trMessage"} /\ fx'.submitted # <<>>

\* C12, amended: the queue is empty whenever the module-level socket is
\* open; a step other than Start, push-to-talk, Send and a disconnect keeps
\* the queue, with what it submits at the tail, or transmits it whole in
\* queue order; Start, push-to-talk and Send drop what was queued, so that
\* only actions submitted in that very step are queued or sent after it.
C12_QueuedUntilSentOrCleared ==
  /\ [](ControlOpen => websocketApplicationQueue = <<>>)
  /\ [][(~OutClears /\ ~Disconnects) => KeptOrFlushed]_vars
  /\ [][OutClears =>
         /\ OutQueueIds' \cup NewSentIds \subseteq FreshOutIds
         /\ IdsOf(websocketApplicationQueue') \o IdsOf(NewSent) = FreshOut]_vars

\* The socket opens with a ping waiting: the ping and then the startProcess
\* of the open listener are transmitted.
C12_Witness ==
  /\ fx.ev = "appOpen"
  /\ Len(fx.appSent) = 2
  /\ fx.appSent[1].msg.action = "ping"
  /\ fx.appSent[2].msg.action = "startProcess"
  /\ websocketApplicationQueue = <<>>

\* The transmissions on control socket s, in order.
RECURSIVE SentOn(_, _)
SentOn(log, s) ==
  IF log = <<>> THEN <<>>
  ELSE IF Head(log).sock = s
       THEN <<Head(log).action>> \o SentOn(Tail(log), s)
       ELSE SentOn(Tail(log), s)

StartProcessCount(actions) ==
  Cardinality({i \in 1..Len(actions) : actions[i] = "startProcess"})

\* C13: each time a control connection opens, exactly one startProcess is
\* transmitted on it, and it precedes every other action transmitted on
\* that connection: the step in which socket s opens transmits one
\* startProcess on s, and on every socket the first action transmitted is
\* startProcess and no other one is.
C13_StartProcessFirst ==
  /\ [][fx'.ev = "appOpen" =>
         \A s \in AppSocks :
           (appSock[s] = "connecting" /\ appSock'[s] = "open") =>
             StartProcessCount(SentOn(NewSent, s)) = 1]_vars
  /\ [](\A s \in AppSocks :
          LET on == SentOn(sent, s)
          IN on # <<>> => /\ on[1] = "startProcess"
                          /\ StartProcessCount(on) = 1)

\* ------------------------------------------------------------- stopping --
\* C14: after the user stops the session the control socket is closed or
\* closing, the graceful close of the transcription channel has been
\* initiated (capture stopped, the empty frame sent) if it was open, and
\* the outbound control queue is empty.
C14_StopClosesBoth ==
  [][fx'.ev = "stopClick" =>
       /\ websocketApplication # 0 =>
            appSock'[websocketApplication] \in {"closing", "failing", "closed"}
       /\ (websocketTranscribe # 0 /\ trSock[websocketTranscribe] = "open") =>
            /\ mic'[micStream].stopped
            /\ fx'.trSent = <<[sock |-> websocketTranscribe,
                               frame |-> EmptyFrame, result |-> "sent"]>>
       /\ websocketApplicationQueue' = <<>>]_vars

\* ---------------------------------------------- transcription channel --
\* Transcription socket k fails in this step: an error, or a close with a
\* code other than 1000.
TrFails(k) ==
  /\ trSock[k] # "closed"
  /\ trSock'[k] = "closed"
  /\ \/ fx'.ev = "trError"
     \/ fx'.ev = "trClose" /\ fx'.arg[1] # 1000

\* C15: on a transcription-socket error or a close with a non-normal code
\* the capture bound to that connection is stopped, the error is shown,
\* and no new transcription connection is opened or asked for.
C15_FailureStopsCaptureNoRetry ==
  [][\A k \in TrSocks :
       TrFails(k) => /\ mic'[k].stopped
                     /\ errorShown'
                     /\ Len(trSock') = Len(trSock)
                     /\ gum' = gum]_vars

\* C16: on the graceful disconnect of an open transcription connection the
\* capture is stopped and exactly one empty audio frame is sent, and that
\* frame is the last one ever sent on the connection: a Stop click with the
\* socket open stops the mic stream of the connection and sends the empty
\* frame, and no audio frame (live or silence) is transmitted on a socket
\* that frame was sent on.  A second Stop click repeats the empty frame;
\* the formula lets that pass and asks only that no audio follows.
C16_EmptyFrameIsLast ==
  /\ [][(/\ fx'.ev = "stopClick"
         /\ websocketTranscribe # 0
         /\ trSock[websocketTranscribe] = "open") =>
          /\ mic'[websocketTranscribe].stopped
          /\ fx'.trSent = <<[sock |-> websocketTranscribe,
                             frame |-> EmptyFrame, result |-> "sent"]>>]_vars
  /\ [][\A i \in 1..Len(fx'.trSent) :
          (fx'.trSent[i].sock \in flushed /\ fx'.trSent[i].frame # EmptyFrame)
            => fx'.trSent[i].result # "sent"]_vars

\* The ringtone action with the id it is given when the socket opens.
Ringtone == [id |-> nextId, action |-> "PLAY_RINGTONE", type |-> "-"]

\* C17: each time the transcription socket opens, exactly one PLAY_RINGTONE
\* is appended to the tail of the playback queue and played in its FIFO
\* position, never over another audio action.  Nothing waits in the queue
\* while no action is in flight, so: with an action in flight the ringtone
\* is put behind everything queued and nothing is started; with none it is
\* started at once, and then no playback the sequencer started is under
\* way.
C17_RingtoneQueuedOnOpen ==
  /\ [](~isQueueProcessing => websocketQueue = <<>>)
  /\ [][fx'.ev = "trOpen" =>
         /\ nextId' = nextId + 1
         /\ IF isQueueProcessing
            THEN /\ websocketQueue' = Append(websocketQueue, Ringtone)
                 /\ started' = started
                 /\ audio' = audio
            ELSE /\ ~(audio.bySeq /\ AudioBusy)
                 /\ websocketQueue' = <<>>
                 /\ started' = Append(started, nextId)
                 /\ isQueueProcessing'
                 /\ audio' = [src |-> nextId, type |-> "RINGTONE",
                              phase |-> "starting", bySeq |-> TRUE]]_vars

\* The socket opened while a response was playing: the ringtone waited and
\* is started by the 'ended' of the response.
C17_Witness ==
  /\ fx.ev = "ended"
  /\ Len(started) >= 2
  /\ audio = [src |-> started[Len(started)], type |-> "RINGTONE",
              phase |-> "starting", bySeq |-> TRUE]
  /\ Len(trSock) = 1
  /\ websocketQueue = <<>>

\* ------------------------------------------------ provisioning endpoint --
\* What the catch handler of the fetch does: the error is shown, no connect
\* attempt is started and no socket is created.
FailureHandled ==
  fx'.ev = "fetchFail" =>
    /\ errorShown'
    /\ fx'.connects = 0
    /\ fetches' = fetches - 1
    /\ appSock' = appSock
    /\ websocketApplication' = websocketApplication

\* C18 as stated: when the fetch of the capability URL fails the error is
\* shown and no connect attempt is ever made because of the failure, the
\* first attempt included: the handler starts none, and once a fetch has
\* failed and none is under way the keepalive timer starts none.
C18_FetchFailureNeverRetried ==
  [][/\ FailureHandled
     /\ (fetchFailed /\ fetches = 0 /\ fx'.ev = "tick") =>
          fx'.connects = 0]_vars

\* C18, amended: the handler shows the error and starts no connect attempt
\* itself, but a keepalive tick after a failed fetch starts a new attempt
\* exactly when the module-level handle is still undefined, that is when
\* no fetch has succeeded yet.
C18_FetchFailureRetriedByTimer ==
  [][/\ FailureHandled
     /\ (fetchFailed /\ fetches = 0 /\ fx'.ev = "tick") =>
          fx'.connects = IF websocketApplication = 0 THEN 1 ELSE 0]_vars

\* The first fetch has failed and the timer has started the next one.
C18_Witness ==
  /\ fx.ev = "tick"
  /\ fetchFailed
  /\ errorShown
  /\ fx.connects = 1
  /\ fetches = 1
  /\ appSock = <<>>

\* ------------------------------------------------------- error handling --
\* A final or partial result whose text decodeURIComponent rejects.
UndecodableResult ==
  /\ fx'.ev = "trMessage"
  /\ fx'.arg[1].n = 1
  /\ ~DecodeOk(fx'.arg[1].text)

\* C19: when the text of a transcript cannot be decoded, processing does
\* not fail and the undecoded text is used: the listener is not aborted,
\* and a finalized fragment is accumulated as it came.
C19_UndecodableTextFallsBack ==
  [][UndecodableResult =>
       /\ ~fx'.threw
       /\ ~fx'.arg[1].partial =>
            utterance' = utterance \o transcription \o fx'.arg[1].text
                           \o <<"\n">>]_vars

\* A step that handles a failure event of one of the two channels or of
\* the provisioning endpoint.
FailureEvent ==
  \/ fx'.ev \in {"appError", "trError", "fetchFail"}
  \/ fx'.ev = "trClose" /\ fx'.arg[1] # 1000

\* C20: every failure event is handled inside its callback and ends in a
\* user-visible error or a reconnect attempt, and no callback is aborted
\* part-way by an unhandled error.
C20_NoCallbackAborts ==
  [][/\ ~fx'.threw
     /\ FailureEvent => (errorShown' \/ fx'.connects > 0)]_vars

\* ------------------------------------------------------- sending a text --
\* The last two message nodes are the utterance and the wait placeholder.
UtteranceThenWait ==
  LET n == Len(messages')
  IN /\ n >= 2
     /\ messages'[n - 1].cls = "utterance"
     /\ messages'[n].cls = "wait"

\* C21: sending a non-empty text while the control channel is disconnected
\* triggers a connect, hands exactly one sendUtterance with the text to the
\* control channel, and shows the utterance and then the wait placeholder.
C21_SendWhileDisconnectedConnects ==
  [][(fx'.ev = "sendClick" /\ NoConnection) =>
       /\ fx'.connects = 1
       /\ fx'.submitted =
            <<[action |-> "sendUtterance", utterance |-> fx'.arg[1]]>>
       /\ UtteranceThenWait]_vars

\* ------------------------------------------------------ audio front end --
BodyIsZero(body) == \A i \in 1..Len(body.int16) : body.int16[i] = 0

\* C22 as stated: the silence frame carries an all-zero payload of 16384
\* bytes, the same for every capture rate and every chunk.
C22_SilencePayloadIs16384Bytes ==
  [][fx'.ev = "convertSilence" =>
       /\ BodyIsZero(dsp'.message.body)
       /\ dsp'.message.body.byteLength = 16384]_vars

\* The payload of the silence frame by capture rate: the 4096 zero samples
\* of the 16384-byte buffer, downsampled to 16 kHz, two bytes each.
SilenceBytes(rate) ==
  CASE rate = 8000 -> 16384
    [] rate = 16000 -> 8192
    [] rate = 32000 -> 4096
    [] rate = 48000 -> 2730
    [] OTHER -> 2972

\* C22, amended: the silence frame is the conversion of a zero-filled
\* 16384-byte buffer, so its payload is all zero and the same for every
\* chunk, but its size is 2 * round(4096 * 16000 / rate) bytes and depends
\* on the capture rate: 2972 bytes at 44.1 kHz (and while no rate is
\* known), 2730 at 48 kHz, 8192 at 16 kHz.
C22_SilencePayloadDependsOnRate ==
  [][fx'.ev = "convertSilence" =>
       /\ BodyIsZero(dsp'.message.body)
       /\ dsp'.chunk.byteLength = 16384
       /\ Len(dsp'.raw) = 4096
       /\ Len(dsp'.message.body.int16) = Len(dsp'.downsampledBuffer)
       /\ dsp'.message.body.byteLength = SilenceBytes(micSampleRate)]_vars

\* The silence frame at the default rate.
C22_Witness ==
  /\ fx.ev = "convertSilence"
  /\ micSampleRate = 0
  /\ dsp.inputSampleRate = 44100
  /\ dsp.message.body.byteLength = 2972
  /\ BodyIsZero(dsp.message.body)

\* C23: downsampleBuffer returns its input when the two rates are equal,
\* and for every input length and ratio R = inputRate / outputRate the
\* output has round(inputLength / R) samples: the output length n is the
\* integer with n - 1/2 <= inputLength * outputRate / inputRate < n + 1/2.
C23_DownsampleLength ==
  LET len == Len(dsp.raw)
      n == Len(dsp.downsampledBuffer)
      in == dsp.inputSampleRate
      out == transcribeSampleRate
  IN in # 0 =>
       /\ in = out => dsp.downsampledBuffer = dsp.raw
       /\ (2 * n - 1) * in <= 2 * len * out
       /\ 2 * len * out < (2 * n + 1) * in

\* Three samples at twice the output rate: 1.5 is rounded up to 2.
C23_Witness ==
  /\ fx.ev = "convert"
  /\ dsp.inputSampleRate = 32000
  /\ Len(dsp.raw) = 3
  /\ Len(dsp.downsampledBuffer) = 2

\* C24: pcmEncode maps -1.0 to -32768 and 1.0 to 32767, clamps every input
\* outside [-1, 1] to those endpoints, every encoded sample lies in the
\* signed 16-bit range, and the output has two bytes per input sample.
C24_PcmEncodeRange ==
  LET input == dsp.downsampledBuffer
      output == dsp.message.body
  IN /\ output.byteLength = 2 * Len(input)
     /\ Len(output.int16) = Len(input)
     /\ \A i \in 1..Len(input) :
          /\ output.int16[i] \in -32768..32767
          /\ (input[i].d # 0 /\ input[i].n <= -input[i].d) =>
               output.int16[i] = -32768
          /\ (input[i].d # 0 /\ input[i].n >= input[i].d) =>
               output.int16[i] = 32767
          /\ (input[i].d # 0 /\ input[i].n < 0) => output.int16[i] <= 0
          /\ (input[i].d # 0 /\ input[i].n >= 0) => output.int16[i] >= 0

\* The samples -1.5 and 1.0, not resampled, are encoded as the endpoints.
C24_Witness ==
  /\ fx.ev = "convert"
  /\ dsp.inputSampleRate = transcribeSampleRate
  /\ dsp.downsampledBuffer = <<F(-6), F(4)>>
  /\ dsp.message.body.int16 = <<-32768, 32767>>
  /\ dsp.message.body.byteLength = 4

\* ------------------------------------------------------ conversation --
\* The class of the message node a display action writes to.
DisplayClass(action) ==
  IF action = "DISPLAY_RESPONSE" THEN "response" ELSE "feedback"

\* A handler of the sequencer starts exactly one action, a display action.
OneDisplayStarted ==
  /\ fx'.ev \in {"appMessage", "ended", "trOpen"}
  /\ Len(started') = Len(started) + 1
  /\ lastAction' \in {"DISPLAY_RESPONSE", "DISPLAY_FEEDBACK"}

\* C25: when a display action is run and the last message node has the
\* type of the action, the node gets the text and the number of nodes does
\* not change; otherwise exactly one new node of that type is appended,
\* after the nodes there were less a trailing wait placeholder.
C25_DisplayAppendsOrAddsOneNode ==
  [][OneDisplayStarted =>
       LET type == DisplayClass(lastAction')
           n == Len(messages)
       IN IF n > 0 /\ messages[n].cls = type
          THEN /\ Len(messages') = n
               /\ messages'[n].cls = type
               /\ messages'[n].parts = messages[n].parts + 1
               /\ \A i \in 1..(n - 1) : messages'[i] = messages[i]
          ELSE LET kept == IF n > 0 /\ messages[n].cls = "wait"
                           THEN n - 1 ELSE n
               IN /\ Len(messages') = kept + 1
                  /\ messages'[kept + 1] = [cls |-> type, parts |-> 1]
                  /\ \A i \in 1..kept : messages'[i] = messages[i]]_vars

\* After the user's text, a response text got a node of its own and the
\* next response text was appended to it.
C25_Witness ==
  /\ fx.ev = "appMessage"
  /\ fx.arg = <<In("DISPLAY_RESPONSE", "TEXT")>>
  /\ messages = << [cls |-> "utterance", parts |-> 1],
                   [cls |-> "response", parts |-> 2] >>

\* ------------------------------------------------- at most once --
\* C26: an action is dequeued and run at most once: no id is started
\* twice, a started action is no longer in the queue, no id is queued
\* twice, and a handler only adds to the started actions ones that were
\* queued or that it enqueued itself.
C26_ExecutedAtMostOnce ==
  /\ [](/\ \A i, j \in 1..Len(started) :
              started[i] = started[j] => i = j
        /\ \A i, j \in 1..Len(websocketQueue) :
              websocketQueue[i].id = websocketQueue[j].id => i = j
        /\ StartedIds \cap QueueIds = {})
  /\ [][/\ Len(started') >= Len(started)
        /\ SubSeq(started', 1, Len(started)) = started
        /\ \A i \in (Len(started) + 1)..Len(started') :
              started'[i] \in QueueIds \cup nextId..(nextId' - 1)]_vars

\* Two actions arrived while an audio action was in flight; the 'ended'
\* callback ran the first, whose completion re-entered the drain and ran
\* the second.
C26_Witness ==
  /\ fx.ev = "ended"
  /\ started = <<1, 2, 3>>
  /\ lastAction = "DISPLAY_FEEDBACK"
  /\ websocketQueue = <<>>
  /\ ~isQueueProcessing

\* ------------------------------------------------------------ status --
\* The handlers that call the drain routine, each as its last change of
\* the status.
DrainEvents == {"appMessage", "ended", "trOpen"}

\* C27: when a handler that called the drain routine returns with the
\* playback queue empty, the status shown is Ready.
C27_EmptyQueueShowsReady ==
  [][(fx'.ev \in DrainEvents /\ ~fx'.threw /\ websocketQueue' = <<>>)
       => status' = "Ready"]_vars

\* A WAIT action set the status to Processing; the queue was empty when
\* the drain returned and the status is Ready.
C27_Witness ==
  /\ fx.ev = "appMessage"
  /\ fx.arg = <<In("WAIT", "wait")>>
  /\ lastAction = "WAIT"
  /\ websocketQueue = <<>>
  /\ status = "Ready"

EmitsUtterance ==
  \E i \in 1..Len(fx'.submitted) : fx'.submitted[i].action = "sendUtterance"

\* The step is the handling of a transcript event that carries a result.
ResultStep == fx'.ev = "trMessage" /\ fx'.arg[1].n > 0

\* The step is the handling of a finalized result whose text is decoded.
FinalResultStep == ResultStep /\ ~fx'.arg[1].partial /\ ~fx'.threw

\* The steps that do not end an utterance: a transcript event with a
\* result, the keepalive tick, a toggle of the listening flag, and a
\* zero-result event received while listening.
QuietStep ==
  \/ ResultStep
  \/ fx'.ev \in {"tick", "listenStart", "listenStop"}
  \/ ZeroResultStep /\ isListening

\* C29 as stated: an utterance is emitted (other than by the user's own
\* click on the send button) only by a zero-result event received while
\* not listening, and no transcript event with a result, tick, listening
\* toggle or zero-result event received while listening emits an
\* utterance or changes the pending buffer.
C29_QuietStepsLeaveThePendingBuffer ==
  [][/\ (EmitsUtterance /\ fx'.ev # "sendClick") =>
          (ZeroResultStep /\ ~isListening)
     /\ QuietStep => (~EmitsUtterance /\ utterance' = utterance)]_vars

\* C29 as amended: the same, except that a finalized result does change
\* the pending buffer: it appends to it, and nothing else of these does.
C29_OnlyZeroResultEmits ==
  [][/\ (EmitsUtterance /\ fx'.ev # "sendClick") =>
          (ZeroResultStep /\ ~isListening)
     /\ QuietStep => ~EmitsUtterance
     /\ (QuietStep /\ ~FinalResultStep) => utterance' = utterance
     /\ FinalResultStep =>
          /\ Len(utterance') > Len(utterance)
          /\ SubSeq(utterance', 1, Len(utterance)) = utterance]_vars

\* A zero-result event received while not listening has emitted the three
\* words that were pending, and the pending buffer is empty.
C29_Witness ==
  /\ fx.ev = "trMessage"
  /\ fx.arg = <<ZeroResults>>
  /\ ~isListening
  /\ fx.submitted = << [action |-> "sendUtterance",
                        utterance |-> <<" ", "a", " ", "a", " ", "a", "\n">>] >>
  /\ utterance = <<>>

\* ------------------------------------------------- transcript results --
\* C30: a partial result leaves the accumulation buffer and the pending
\* buffer unchanged; a finalized result appends its fragment and one
\* separator to the pending buffer and leaves the accumulation buffer
\* empty.
C30_ResultEffectOnBuffers ==
  [][ResultStep =>
       IF fx'.arg[1].partial
       THEN /\ transcription' = transcription
            /\ utterance' = utterance
       ELSE /\ utterance' = utterance \o fx'.arg[1].text \o <<"\n">>
            /\ transcription' = <<>>]_vars

\* -------------------------------------------------------- push-to-talk --
\* C31: whileListeningStart empties the playback queue and the outbound
\* control queue, takes the sequenced audio off the audio element (the
\* empty tone is its source), and sets listening and resets speaking;
\* whileListeningStop resets listening and leaves the two queues and the
\* speaking flag as they are.
C31_PushToTalkFrame ==
  [][/\ fx'.ev = "listenStart" =>
          /\ websocketQueue' = <<>>
          /\ websocketApplicationQueue' = <<>>
          /\ audio'.src = 0 /\ ~audio'.bySeq
          /\ isListening' /\ ~isSpeaking'
     /\ fx'.ev = "listenStop" =>
          /\ ~isListening'
          /\ websocketQueue' = websocketQueue
          /\ websocketApplicationQueue' = websocketApplicationQueue
          /\ isSpeaking' = isSpeaking]_vars

\* A response was playing and a second one was queued; push-to-talk took
\* the first off the audio element and dropped the second.
C31_Witness ==
  /\ fx.ev = "listenStart"
  /\ nextId = 3 /\ started = <<1>>
  /\ lastAction = "PLAY_RESPONSE"
  /\ websocketQueue = <<>>
  /\ audio.src = 0
  /\ isListening /\ ~isSpeaking

\* ------------------------------------------- one control connection --
\* The control sockets whose 'open' and 'message' listeners can still run.
LiveAppSocks ==
  {s \in 1..Len(appSock) : appSock[s] \in {"connecting", "open"}}

\* C32: at any time at most one control socket exists whose open and
\* message events can reach the sequencer and the outbound queue.
C32_OneLiveControlSocket == Cardinality(LiveAppSocks) <= 1

\* ------------------------------------- one transcription connection --
\* The transcription sockets not yet closed, and the capture streams not
\* yet stopped.
LiveTrSocks ==
  {k \in 1..Len(trSock) : trSock[k] \in {"connecting", "open"}}
LiveMics == {k \in 1..Len(mic) : ~mic[k].stopped}

\* C33: at any time at most one transcription socket and one capture
\* stream are active, and the close of a transcription socket stops no
\* capture stream other than the one created with that socket.
C33_OneTranscriptionConnection ==
  /\ [](Cardinality(LiveTrSocks) <= 1 /\ Cardinality(LiveMics) <= 1)
  /\ [][\A k, j \in 1..Len(trSock) :
          (trSock[k] # "closed" /\ trSock'[k] = "closed" /\ j # k) =>
            mic'[j].stopped = mic[j].stopped]_vars

\* ------------------------------------------------------ speaking flag --
\* C34: whenever speaking is true, the processing flag is true and the
\* playback on the audio element is that of a PLAY_RESPONSE, PLAY_FEEDBACK
\* or PLAY_RINGTONE action the sequencer started; so the play() calls of
\* Start, push-to-talk and Send, which the sequencer did not start, never
\* leave speaking true, while push-to-talk is held or otherwise.
C34_SpeakingOnlyForSequencedAudio ==
  isSpeaking =>
    /\ isQueueProcessing
    /\ lastAction \in MediaActions
    /\ audio.bySeq

\* --------------------------------------------- sends on an open socket --
\* C35: no frame is sent on a transcription socket that is not open: a
\* chunk captured while the socket is connecting, closing or closed
\* results in no call of send().
C35_NoSendUnlessOpen ==
  [][fx'.ev = "micData" =>
       \A i \in 1..Len(fx'.trSent) :
         trSock[fx'.trSent[i].sock] = "open"]_vars

\* ------------------------------------------------ buffers after a send --
\* C36: after a handler has called sendUtterance, for typed text or for a
\* captured utterance, the accumulation buffer and the pending buffer are
\* both empty.
C36_BuffersEmptyAfterSend ==
  [][EmitsUtterance => (utterance' = <<>> /\ transcription' = <<>>)]_vars

\* ------------------------------------------------------ pending pings --
\* The keepalive pings waiting in the outbound control queue.
PendingPings ==
  {i \in 1..Len(websocketApplicationQueue) :
     websocketApplicationQueue[i].action = "ping"}

\* C37: keepalive pings do not accumulate in the outbound control queue
\* while the control connection is closed: at most one ping is pending.
C37_AtMostOnePendingPing ==
  (websocketApplication # 0 /\ appSock[websocketApplication] = "closed")
    => Cardinality(PendingPings) <= 1

\* ------------------------------------------------------------ progress --
\* The sequencer is idle.
Idle == websocketQueue = <<>> /\ ~isQueueProcessing

\* Every action enqueued so far has been started and the sequencer is idle.
AllRun == Idle /\ \A id \in 1..(nextId - 1) : id \in StartedIds

nextOffsetBuffer(j, inputSampleRate, outputSampleRate) ==
  MathRound(j * inputSampleRate, outputSampleRate)

\* The input samples the inner loop adds up for output sample k - 1: those
\* at the 0-based indices WindowStart(k) .. WindowEnd(k) - 1.
WindowStart(k) ==
  nextOffsetBuffer(k - 1, dsp.inputSampleRate, transcribeSampleRate)
WindowEnd(k) ==
  LET next == nextOffsetBuffer(k, dsp.inputSampleRate, transcribeSampleRate)
  IN IF next < Len(dsp.raw) THEN next ELSE Len(dsp.raw)

\* C39: when the input rate differs from the output rate, every output
\* sample of downsampleBuffer is the mean of a non-empty window of input
\* samples, and each window begins where the one before it ended.
C39_WindowsNonEmptyAndContiguous ==
  (dsp.inputSampleRate # 0 /\ dsp.inputSampleRate # transcribeSampleRate) =>
    \A k \in 1..Len(dsp.downsampledBuffer) :
      /\ WindowStart(k) < WindowEnd(k)
      /\ k > 1 => WindowStart(k) = WindowEnd(k - 1)
      /\ dsp.downsampledBuffer[k] =
           [n |-> Accum(dsp.raw, WindowStart(k), WindowEnd(k)),
            d |-> 4 * (WindowEnd(k) - WindowStart(k))]

\* ---------------------------------------------------- wait placeholder --
\* C40: a wait placeholder in the conversation is always the last message
\* node, so there is never more than one; and a WAIT action run while the
\* last node is a wait placeholder leaves the conversation as it is.
C40_WaitPlaceholderIsLast ==
  /\ [](\A i \in 1..Len(messages) :
          messages[i].cls = "wait" => i = Len(messages))
  /\ [][(/\ fx'.ev \in DrainEvents
         /\ Len(started') = Len(started) + 1
         /\ lastAction' = "WAIT"
         /\ Len(messages) > 0
         /\ messages[Len(messages)].cls = "wait")
          => messages' = messages]_vars

\* The send button showed the typed text and a wait placeholder; a WAIT
\* action that arrived then added nothing.
C40_Witness ==
  /\ fx.ev = "appMessage"
  /\ fx.arg = <<In("WAIT", "wait")>>
  /\ lastAction = "WAIT"
  /\ messages = << [cls |-> "utterance", parts |-> 1],
                   [cls |-> "wait", parts |-> 1] >>

=============================================================================
